---- MODULE Spec2Model ----
(***************************************************************************)
(* The batch coordinator of a storage shard: Shard.putObjectBatch and      *)
(* Shard.addReferencesBatch.  A batch is split into chunks of at most      *)
(* maxPerTransaction items, one goroutine per chunk runs the chunk inside  *)
(* one bolt Batch transaction, and (for objects) a second phase fans out   *)
(* one VectorIndex.Add goroutine per index that has no recorded error.     *)
(***************************************************************************)
EXTENDS Integers, Sequences, FiniteSets, TLC

\* ------------------------------------------------------------------ sizes

\* maxPerTransaction := 30
maxPerTransaction == 30

\* the batch sizes explored fill at most MaxChunks chunks
MaxChunks == 2
\* at most this many items of a batch are unparsable or rejected by the store
MaxBad == 1
\* at most this many VectorIndex.Add calls of a batch fail
MaxAddFail == 1
\* at most this many transaction commits of a batch fail
MaxCommitFail == 1
\* at most this many VectorIndex.Add goroutines are scheduled at a time
MaxLive == 1
\* the sizes explored by the specification of the split loop alone
MaxSplitLen == 95

\* ... and end on a chunk boundary or one item after it
BatchSizes ==
    {len \in 0..(maxPerTransaction * MaxChunks) : len % maxPerTransaction \in {0, 1}}

\* the indices at which an item is unparsable or rejected: the eleventh item
\* of every chunk and the last item of the batch
Probes(len) ==
    {k \in 0..(len - 1) : k % maxPerTransaction = 10 \/ k = len - 1}

\* the indices at which VectorIndex.Add fails: the last item of every chunk
AddProbes(len) ==
    {k \in 0..(len - 1) : k % maxPerTransaction = 29 \/ k = len - 1}

\* the inputs in which two items carry the same UUID: <<a, b>> gives item b
\* the UUID of item a; <<0, 0>> is a batch of distinct UUIDs
Twins(len) == {<<0, 0>>} \cup {t \in {<<0, 1>>, <<0, 30>>} : t[2] < len}

VARIABLES
    mode,             \* "objects" (putObjectBatch) or "refs" (addReferencesBatch)
    n,                \* len(objects) / len(refs)
    twin,             \* which items share a UUID
    invalid,          \* indices whose UUID does not parse
    rejected,         \* indices whose put (objects) or merge (refs) fails
    addBad,           \* indices whose VectorIndex.Add fails
    pc,               \* position of the batch function itself
    i,                \* its loop variable
    chunks,           \* the (i, batch) arguments of the goroutines started so far
    cpc,              \* position of every chunk goroutine
    cerr,             \* the error db.Batch returned to every chunk goroutine
    affectedIndices,  \* every chunk goroutine's affectedIndices slice
    m,                \* holder of the mutex m
    wg,               \* counter of the current WaitGroup
    docIDs,           \* the shared docIDs map
    errs,             \* the shared errs map
    store,            \* committed content of the objects bucket, by UUID
    counter,          \* committed value of the docID counter
    commitFails,      \* commits that have failed so far
    committed,        \* chunk goroutines whose transaction committed
    adders,           \* the VectorIndex.Add goroutines: position and docID argument
    vecIndex,         \* docIDs the vector index holds
    cancelled,        \* ctx.Done() is closed
    now,              \* the wall clock, as time.Now().UnixNano() reads it
    rest,             \* the REST request a kind handler is serving
    boot              \* configureAPI: its position and what it has set up

inputs == <<mode, n, twin, invalid, rejected, addBad>>
phase1 == <<chunks, cpc, cerr, affectedIndices, commitFails, committed>>
shard  == <<store, counter>>
front  == <<rest, boot>>
vars   == <<inputs, pc, i, phase1, m, wg, docIDs, errs, shard, adders, vecIndex,
           cancelled, now, front>>

\* ---------------------------------------------------------------- helpers

Min(a, b) == IF a < b THEN a ELSE b

Free == <<"free", 0>>
ChunkG(w) == <<"chunk", w>>
AddG(j) == <<"add", j>>

\* object.ID() / ref.From.TargetID of the item at index k
ID(k) == IF twin[1] # twin[2] /\ k = twin[2] THEN twin[1] ELSE k

Put(f, k, v) == (k :> v) @@ f

\* (the indices counted from the start of the chunk: append(affectedIndices, j))
ChunkIndicesRelative(ch) == [j \in 1..ch.len |-> j - 1]

\* the indices i .. i+len-1 of a chunk, in order
ChunkIndices(ch) == [j \in 1..ch.len |-> ch.i + (j - 1)]
ChunkSet(ch) == {ch.i + j : j \in 0..(ch.len - 1)}

Workers == 1..Len(chunks)

\* ------------------------------------------------- the objects bucket (4.2, 4.3)

\* (a put that hands out the counter's value and leaves the counter alone)
putObjectInTxNoIncrement(tx, k, w) ==
    IF k \in rejected
    THEN [err |-> "put", tx |-> tx, docID |-> 0]
    ELSE IF ID(k) \in DOMAIN tx.store
    THEN [err |-> "nil",
          tx |-> [tx EXCEPT !.store[ID(k)].by = w,
                            !.store[ID(k)].updatedAt = now],
          docID |-> tx.store[ID(k)].docID]
    ELSE [err |-> "nil",
          tx |-> [store |-> Put(tx.store, ID(k),
                                [docID |-> tx.counter, by |-> w, refs |-> 0,
                                 createdAt |-> now, updatedAt |-> now]),
                  counter |-> tx.counter],
          docID |-> tx.counter]

\* (a put that allocates a docID whether the UUID is present or not)
putObjectInTxAlwaysNew(tx, k, w) ==
    IF k \in rejected
    THEN [err |-> "put", tx |-> tx, docID |-> 0]
    ELSE [err |-> "nil",
          tx |-> [store |-> Put(tx.store, ID(k),
                                [docID |-> tx.counter, by |-> w, refs |-> 0,
                                 createdAt |-> now, updatedAt |-> now]),
                  counter |-> tx.counter + 1],
          docID |-> tx.counter]

\* put: an absent UUID gets the next docID of the counter, inside the
\* transaction; a present UUID is updated: it keeps its docID and createdAt
\* and its updatedAt is refreshed
putObjectInTx(tx, k, w) ==
    IF k \in rejected
    THEN [err |-> "put", tx |-> tx, docID |-> 0]
    ELSE IF ID(k) \in DOMAIN tx.store
    THEN [err |-> "nil",
          tx |-> [tx EXCEPT !.store[ID(k)].by = w,
                            !.store[ID(k)].updatedAt = now],
          docID |-> tx.store[ID(k)].docID]
    ELSE [err |-> "nil",
          tx |-> [store |-> Put(tx.store, ID(k),
                                [docID |-> tx.counter, by |-> w, refs |-> 0,
                                 createdAt |-> now, updatedAt |-> now]),
                  counter |-> tx.counter + 1],
          docID |-> tx.counter]

\* kinds.MergeDocument{ID: ref.From.TargetID, UpdateTime: time.Now().UnixNano(),
\* References: kinds.BatchReferences{ref}}
mergeDocFromBatchReference(k) ==
    [ID |-> ID(k), UpdateTime |-> now, References |-> 1]

\* merge: fails on an absent UUID; adds the references to the present
\* object, which keeps its docID and createdAt, and sets its updatedAt to the
\* UpdateTime of the merge document
mergeObjectInTx(tx, mergeDoc, w) ==
    IF mergeDoc.ID \notin DOMAIN tx.store
    THEN [err |-> "not found", tx |-> tx, docID |-> 0]
    ELSE [err |-> "nil",
          tx |-> [tx EXCEPT !.store[mergeDoc.ID].by = w,
                            !.store[mergeDoc.ID].refs = @ + mergeDoc.References,
                            !.store[mergeDoc.ID].updatedAt = mergeDoc.UpdateTime],
          docID |-> tx.store[mergeDoc.ID].docID]

\* ------------------------------------------- the function passed to db.Batch

\* docIDs[object.ID()] = status.docID, under the mutex, inside the function
PublishDocID(pub, k, docID) == Put(pub, ID(k), docID)

\* (an iteration that skips an item it cannot parse, put or merge, and goes on)
BatchItemSkipping(w, k, st) ==
    IF k \in invalid
    THEN st
    ELSE LET r == IF mode = "objects" THEN putObjectInTx(st.tx, k, w)
                                       ELSE mergeObjectInTx(st.tx, mergeDocFromBatchReference(k), w)
         IN  IF r.err # "nil"
             THEN st
             ELSE [err |-> "nil", tx |-> r.tx,
                   pub |-> IF mode = "objects"
                           THEN PublishDocID(st.pub, k, r.docID) ELSE st.pub]

\* one iteration of the loop over the items of the chunk: tx is the open
\* transaction, pub the shared docIDs map; an error ends the function
BatchItem(w, k, st) ==
    IF st.err # "nil"
    THEN st
    ELSE IF k \in invalid
    THEN [st EXCEPT !.err = "invalid id"]
    ELSE LET r == IF mode = "objects" THEN putObjectInTx(st.tx, k, w)
                                       ELSE mergeObjectInTx(st.tx, mergeDocFromBatchReference(k), w)
         IN  IF r.err # "nil"
             THEN [st EXCEPT !.err = r.err]
             ELSE [err |-> "nil", tx |-> r.tx,
                   pub |-> IF mode = "objects"
                           THEN PublishDocID(st.pub, k, r.docID) ELSE st.pub]

\* the iterations for the indices from .. to-1, in order
RECURSIVE BatchItems(_, _, _, _)
BatchItems(w, from, to, st) ==
    IF to <= from THEN st
    ELSE IF to = from + 1 THEN BatchItem(w, from, st)
    ELSE LET mid == (from + to) \div 2
             half == BatchItems(w, from, mid, st)
         IN  IF half.err # "nil" THEN half ELSE BatchItems(w, mid, to, half)

BatchFn(w, tx, pub) ==
    BatchItems(w, chunks[w].i, chunks[w].i + chunks[w].len,
               [err |-> "nil", tx |-> tx, pub |-> pub])

\* the function reaches m.Lock(): its first item is put or merged
TakesMutex(w) ==
    LET k == chunks[w].i
    IN  /\ k \notin invalid
        /\ IF mode = "objects" THEN k \notin rejected ELSE ID(k) \in DOMAIN store

\* bolt runs the functions of the calls it has combined one by one in a
\* single read-write transaction and stops at the first that fails
RECURSIVE RunCalls(_, _, _, _, _)
RunCalls(w, S, tx, pub, ran) ==
    IF w > Len(chunks)
    THEN [failed |-> 0, err |-> "nil", tx |-> tx, pub |-> pub, ran |-> ran]
    ELSE IF w \notin S
    THEN RunCalls(w + 1, S, tx, pub, ran)
    ELSE LET r == BatchFn(w, tx, pub)
         IN  IF r.err # "nil"
             THEN [failed |-> w, err |-> r.err, tx |-> tx, pub |-> r.pub,
                   ran |-> ran \cup {w}]
             ELSE RunCalls(w + 1, S, r.tx, r.pub, ran \cup {w})

\* for j := range batch { affectedIndices = append(affectedIndices, i+j) },
\* once per execution of the function; the slice is a local of the goroutine
\* and is gone when the goroutines in `ended` end
Affected(ran, ended) ==
    [w \in Workers |-> IF w \in ended THEN <<>>
                       ELSE IF w \in ran
                       THEN affectedIndices[w] \o ChunkIndices(chunks[w])
                       ELSE affectedIndices[w]]

\* -------------------------------------------------------------------- Init

\* the state in which putObjectBatch / addReferencesBatch starts: an object
\* batch on an empty bucket (the counter starts at 1), a reference batch on a
\* bucket that holds every source object but the rejected
Start ==
    /\ pc = "split"
    /\ i = 0
    /\ chunks = <<>>
    /\ cpc = <<>>
    /\ cerr = <<>>
    /\ affectedIndices = <<>>
    /\ m = Free
    /\ wg = 0
    /\ docIDs = <<>>
    /\ errs = <<>>
    /\ store = IF mode = "objects" THEN <<>>
               ELSE [u \in {ID(k) : k \in (0..(n - 1)) \ rejected} |->
                        [docID |-> u + 1, by |-> 0, refs |-> 0,
                         createdAt |-> 0, updatedAt |-> 0]]
    /\ counter = IF mode = "objects" THEN 1 ELSE n + 1
    /\ commitFails = 0
    /\ committed = {}
    /\ adders = <<>>
    /\ vecIndex = {}
    /\ cancelled = FALSE
    /\ now = 0
    /\ rest = <<>>
    /\ boot = <<>>

\* a batch of n items of which at most MaxBad are unparsable or rejected and
\* at most MaxAddFail are refused by the vector index
Init ==
    /\ mode \in {"objects", "refs"}
    /\ n \in BatchSizes
    /\ twin \in Twins(n)
    /\ invalid \in {s \in SUBSET Probes(n) : Cardinality(s) <= MaxBad}
    /\ rejected \in {s \in SUBSET Probes(n) :
                        Cardinality(s) + Cardinality(invalid) <= MaxBad /\ s \cap invalid = {}}
    /\ addBad \in {s \in SUBSET AddProbes(n) :
                        Cardinality(s) <= MaxAddFail /\ (mode = "refs" => s = {})}
    /\ Start

\* a batch of any size up to MaxSplitLen, every item of it good
InitSplit ==
    /\ mode \in {"objects", "refs"}
    /\ n \in 0..MaxSplitLen
    /\ twin = <<0, 0>>
    /\ invalid = {}
    /\ rejected = {}
    /\ addBad = {}
    /\ Start

\* ------------------------------------------------ the split loop (28-43, 114-129)

\* one iteration: end := min(i+maxPerTransaction, len); batch := objects[i:end];
\* wg.Add(1); go func(i, batch), which calls s.db.Batch
\* (the loop without its clamp: end := i + maxPerTransaction)
ChunkEndUnclamped(from, len) == from + maxPerTransaction

ChunkEnd(from, len) ==
    IF from + maxPerTransaction > len THEN len ELSE from + maxPerTransaction

\* (a loop that tests its condition after the body)
SplitThenTest ==
    /\ pc = "split"
    /\ i <= n
    /\ chunks' = Append(chunks, [i |-> i, len |-> ChunkEnd(i, n) - i])
    /\ cpc' = Append(cpc, "queued")
    /\ cerr' = Append(cerr, "nil")
    /\ affectedIndices' = Append(affectedIndices, <<>>)
    /\ wg' = wg + 1
    /\ i' = i + maxPerTransaction
    /\ UNCHANGED <<inputs, pc, commitFails, committed, m, docIDs, errs, shard,
                   adders, vecIndex, cancelled, now, front>>

Split ==
    /\ pc = "split"
    /\ i < n
    /\ chunks' = Append(chunks, [i |-> i, len |-> ChunkEnd(i, n) - i])
    /\ cpc' = Append(cpc, "queued")
    /\ cerr' = Append(cerr, "nil")
    /\ affectedIndices' = Append(affectedIndices, <<>>)
    /\ wg' = wg + 1
    /\ i' = i + maxPerTransaction
    /\ UNCHANGED <<inputs, pc, commitFails, committed, m, docIDs, errs, shard,
                   adders, vecIndex, cancelled, now, front>>

SplitDone ==
    /\ pc = "split"
    /\ i >= n
    /\ pc' = "wait1"
    /\ UNCHANGED <<inputs, i, phase1, m, wg, docIDs, errs, shard, adders,
                   vecIndex, cancelled, now, front>>

\* --------------------------------------------------- db.Batch (47-74, 133-160)

BatchGuard(S) ==
    /\ S # {}
    /\ \A w \in S : cpc[w] = "queued"
    /\ (\E w \in S : TakesMutex(w)) => m = Free

Run(S) == RunCalls(1, S, [store |-> store, counter |-> counter], docIDs, {})

\* a function of the combined calls fails: the transaction is rolled back,
\* the failing call is taken out to be run alone and the others stay queued
\* to be run again
BatchFnFails(S) ==
    LET r == Run(S) IN
    /\ BatchGuard(S)
    /\ r.failed # 0
    /\ affectedIndices' = Affected(r.ran, {})
    /\ docIDs' = r.pub
    /\ cpc' = [cpc EXCEPT ![r.failed] = "solo"]
    /\ UNCHANGED <<inputs, pc, i, chunks, cerr, commitFails, committed, m, wg,
                   errs, shard, adders, vecIndex, cancelled, now, front>>

\* every function returned nil and the transaction commits: every call
\* returns nil and its goroutine ends (wg.Done)
BatchCommits(S) ==
    LET r == Run(S) IN
    /\ BatchGuard(S)
    /\ r.failed = 0
    /\ affectedIndices' = Affected(r.ran, S)
    /\ docIDs' = r.pub
    /\ store' = r.tx.store
    /\ counter' = r.tx.counter
    /\ committed' = committed \cup S
    /\ cpc' = [w \in Workers |-> IF w \in S THEN "done" ELSE cpc[w]]
    /\ wg' = wg - Cardinality(S)
    /\ UNCHANGED <<inputs, pc, i, chunks, cerr, commitFails, m, errs, adders,
                   vecIndex, cancelled, now, front>>

\* every function returned nil and the commit fails: the transaction is
\* rolled back and every call returns the commit's error
BatchCommitFails(S) ==
    LET r == Run(S) IN
    /\ BatchGuard(S)
    /\ r.failed = 0
    /\ commitFails < MaxCommitFail
    /\ commitFails' = commitFails + 1
    /\ affectedIndices' = Affected(r.ran, {})
    /\ docIDs' = r.pub
    /\ cpc' = [w \in Workers |-> IF w \in S THEN "failed" ELSE cpc[w]]
    /\ cerr' = [w \in Workers |-> IF w \in S THEN "commit" ELSE cerr[w]]
    /\ UNCHANGED <<inputs, pc, i, chunks, committed, m, wg, errs, shard, adders,
                   vecIndex, cancelled, now, front>>

\* the call taken out of a failed batch runs its function again, alone, in a
\* transaction of its own; what failed it is in the input, so it fails again
\* and db.Batch returns the function's error
SoloGuard(w) ==
    /\ cpc[w] = "solo"
    /\ TakesMutex(w) => m = Free

SoloFnFails(w) ==
    LET r == Run({w}) IN
    /\ SoloGuard(w)
    /\ r.failed # 0
    /\ affectedIndices' = Affected({w}, {})
    /\ docIDs' = r.pub
    /\ cpc' = [cpc EXCEPT ![w] = "failed"]
    /\ cerr' = [cerr EXCEPT ![w] = r.err]
    /\ UNCHANGED <<inputs, pc, i, chunks, commitFails, committed, m, wg, errs,
                   shard, adders, vecIndex, cancelled, now, front>>

\* ------------------------------------- the error branch (74-81, 160-167)

\* m.Lock()
ErrLock(w) ==
    /\ cpc[w] = "failed"
    /\ m = Free
    /\ m' = ChunkG(w)
    /\ cpc' = [cpc EXCEPT ![w] = "locked"]
    /\ UNCHANGED <<inputs, pc, i, chunks, cerr, affectedIndices, commitFails,
                   committed, wg, docIDs, errs, shard, adders, vecIndex, cancelled, now,
                   front>>

\* (the error recorded for the first affected index only)
RecordFirstAffected(w) ==
    Put(errs, affectedIndices[w][1], <<"bolt batch tx", cerr[w]>>)

\* (the error recorded for every index up to the end of the chunk)
RecordFromStart(w) ==
    [k \in DOMAIN errs \cup 0..(chunks[w].i + chunks[w].len - 1) |->
        IF k < chunks[w].i /\ k \in DOMAIN errs THEN errs[k]
        ELSE <<"bolt batch tx", cerr[w]>>]

\* err = errors.Wrap(err, "bolt batch tx"); errs[affected] = err for every
\* affected index
RecordChunkError(w) ==
    [k \in DOMAIN errs \cup {affectedIndices[w][j] : j \in 1..Len(affectedIndices[w])} |->
        IF \E j \in 1..Len(affectedIndices[w]) : affectedIndices[w][j] = k
        THEN <<"bolt batch tx", cerr[w]>>
        ELSE errs[k]]

\* the writes of the critical section, m.Unlock(), and the goroutine ends
\* (wg.Done)
ErrRecord(w) ==
    /\ cpc[w] = "locked"
    /\ m = ChunkG(w)
    /\ errs' = RecordChunkError(w)
    /\ m' = Free
    /\ cpc' = [cpc EXCEPT ![w] = "done"]
    /\ affectedIndices' = Affected({}, {w})
    /\ cerr' = [cerr EXCEPT ![w] = "nil"]
    /\ wg' = wg - 1
    /\ UNCHANGED <<inputs, pc, i, chunks, commitFails, committed, docIDs, shard,
                   adders, vecIndex, cancelled, now, front>>

\* ------------------------------------------------------ wg.Wait() (85, 171)

\* (a reference batch that goes on to the vector index as an object batch does)
Wait1Indexing ==
    /\ pc = "wait1"
    /\ wg = 0
    /\ pc' = "index"
    /\ i' = 0
    /\ UNCHANGED <<inputs, phase1, m, wg, docIDs, errs, shard, adders, vecIndex,
                   cancelled, now, front>>

\* putObjectBatch goes on to the vector index with a new WaitGroup;
\* addReferencesBatch returns errs
Wait1 ==
    /\ pc = "wait1"
    /\ wg = 0
    /\ pc' = IF mode = "objects" THEN "index" ELSE "returned"
    /\ i' = 0
    /\ UNCHANGED <<inputs, phase1, m, wg, docIDs, errs, shard, adders, vecIndex,
                   cancelled, now, front>>

\* ------------------------------------------ the vector index phase (89-108)

\* (the lookup one index off)
HadErrorNext(k) == (k + 1) \in DOMAIN errs

\* _, ok := errs[i], read without the mutex
HadError(k) == k \in DOMAIN errs

\* an Add goroutine is inside its critical section, writing errs
Writing == \E j \in DOMAIN adders : adders[j].pc = "locked"

\* (the docIDs map looked up by the index of the object instead of its UUID)
DocIDOfIndex(k) == IF k \in DOMAIN docIDs THEN docIDs[k] ELSE 0

\* docID := int(docIDs[object.ID()]): the zero value for a missing key
DocIDOf(k) == IF ID(k) \in DOMAIN docIDs THEN docIDs[ID(k)] ELSE 0

\* if _, ok := errs[i]; ok { continue }: had an error prior, ignore
Skip ==
    /\ pc = "index"
    /\ i < n
    /\ HadError(i)
    /\ i' = i + 1
    /\ UNCHANGED <<inputs, pc, phase1, m, wg, docIDs, errs, shard, adders,
                   vecIndex, cancelled, now, front>>

\* no entry: go on to start the goroutine of index i
Dispatch ==
    /\ pc = "index"
    /\ i < n
    /\ ~HadError(i)
    /\ pc' = "spawn"
    /\ UNCHANGED <<inputs, i, phase1, m, wg, docIDs, errs, shard, adders,
                   vecIndex, cancelled, now, front>>

\* the read of errs overlaps the write of an Add goroutine (a data race on a
\* Go map): the lookup may miss the entry that is there
RacyMiss ==
    /\ pc = "index"
    /\ i < n
    /\ Writing
    /\ HadError(i)
    /\ pc' = "spawn"
    /\ UNCHANGED <<inputs, i, phase1, m, wg, docIDs, errs, shard, adders,
                   vecIndex, cancelled, now, front>>

\* or the runtime detects it: fatal error: concurrent map read and map write
RacyCrash ==
    /\ pc = "index"
    /\ i < n
    /\ Writing
    /\ pc' = "crashed"
    /\ UNCHANGED <<inputs, i, phase1, m, wg, docIDs, errs, shard, adders,
                   vecIndex, cancelled, now, front>>

\* wg.Add(1); docID := int(docIDs[object.ID()]); go func(object, docID, i)
Spawn ==
    /\ pc = "spawn"
    /\ wg < MaxLive
    /\ wg' = wg + 1
    /\ adders' = Put(adders, i, [pc |-> "ready", docID |-> DocIDOf(i)])
    /\ i' = i + 1
    /\ pc' = "index"
    /\ UNCHANGED <<inputs, phase1, m, docIDs, errs, shard, vecIndex, cancelled, now, front>>

IndexDone ==
    /\ pc = "index"
    /\ i >= n
    /\ pc' = "wait2"
    /\ UNCHANGED <<inputs, i, phase1, m, wg, docIDs, errs, shard, adders,
                   vecIndex, cancelled, now, front>>

\* s.vectorIndex.Add(docID, object.Vector) returns nil: the goroutine ends
AddOk(j) ==
    /\ pc # "crashed"
    /\ j \in DOMAIN adders
    /\ adders[j].pc = "ready"
    /\ j \notin addBad
    /\ vecIndex' = vecIndex \cup {adders[j].docID}
    /\ adders' = [adders EXCEPT ![j].pc = "done"]
    /\ wg' = wg - 1
    /\ UNCHANGED <<inputs, pc, i, phase1, m, docIDs, errs, shard, cancelled, now, front>>

\* s.vectorIndex.Add returns an error
AddFails(j) ==
    /\ pc # "crashed"
    /\ j \in DOMAIN adders
    /\ adders[j].pc = "ready"
    /\ j \in addBad
    /\ adders' = [adders EXCEPT ![j].pc = "failed"]
    /\ UNCHANGED <<inputs, pc, i, phase1, m, wg, docIDs, errs, shard, vecIndex,
                   cancelled, now, front>>

\* m.Lock()
AddLock(j) ==
    /\ pc # "crashed"
    /\ j \in DOMAIN adders
    /\ adders[j].pc = "failed"
    /\ m = Free
    /\ m' = AddG(j)
    /\ adders' = [adders EXCEPT ![j].pc = "locked"]
    /\ UNCHANGED <<inputs, pc, i, phase1, wg, docIDs, errs, shard, vecIndex,
                   cancelled, now, front>>

\* errs[index] = errors.Wrap(err, "insert to vector index"); m.Unlock(); the
\* goroutine ends
\* (the goroutine using the loop variable instead of its index argument)
RecordAddErrorAtLoopVar(j) == Put(errs, i, <<"insert to vector index", "add">>)

RecordAddError(j) == Put(errs, j, <<"insert to vector index", "add">>)

AddRecord(j) ==
    /\ pc # "crashed"
    /\ j \in DOMAIN adders
    /\ adders[j].pc = "locked"
    /\ m = AddG(j)
    /\ errs' = RecordAddError(j)
    /\ m' = Free
    /\ adders' = [adders EXCEPT ![j].pc = "done"]
    /\ wg' = wg - 1
    /\ UNCHANGED <<inputs, pc, i, phase1, docIDs, shard, vecIndex, cancelled, now, front>>

\* wg.Wait(); return errs
Wait2 ==
    /\ pc = "wait2"
    /\ wg = 0
    /\ pc' = "returned"
    /\ UNCHANGED <<inputs, i, phase1, m, wg, docIDs, errs, shard, adders,
                   vecIndex, cancelled, now, front>>

\* ------------------------------------------------------------ the context

\* the caller cancels ctx, or its deadline expires, while the batch runs
Cancel ==
    /\ pc \notin {"returned", "crashed"}
    /\ ~cancelled
    /\ cancelled' = TRUE
    /\ UNCHANGED <<inputs, pc, i, phase1, m, wg, docIDs, errs, shard, adders,
                   vecIndex, now, front>>

\* ------------------------------------------------------------------- Next

Next ==
    \/ Split
    \/ SplitDone
    \/ \E S \in SUBSET Workers : BatchFnFails(S)
    \/ \E S \in SUBSET Workers : BatchCommits(S)
    \/ \E S \in SUBSET Workers : BatchCommitFails(S)
    \/ \E w \in Workers : SoloFnFails(w)
    \/ \E w \in Workers : ErrLock(w)
    \/ \E w \in Workers : ErrRecord(w)
    \/ Wait1
    \/ Skip
    \/ Dispatch
    \/ RacyMiss
    \/ RacyCrash
    \/ Spawn
    \/ IndexDone
    \/ \E j \in DOMAIN adders : AddOk(j)
    \/ \E j \in DOMAIN adders : AddFails(j)
    \/ \E j \in DOMAIN adders : AddLock(j)
    \/ \E j \in DOMAIN adders : AddRecord(j)
    \/ Wait2

Spec == Init /\ [][Next]_vars

\* the loop that splits the batch, alone, over every size up to MaxSplitLen
NextSplit == Split \/ SplitDone

SpecSplit == InitSplit /\ [][NextSplit]_vars

\* the batch under a context that may be cancelled at any moment
\* the steps of the goroutine that runs the batch
Coordinator ==
    \/ Split
    \/ SplitDone
    \/ Wait1
    \/ Skip
    \/ Dispatch
    \/ RacyMiss
    \/ RacyCrash
    \/ Spawn
    \/ IndexDone
    \/ Wait2

\* the steps of a chunk goroutine after db.Batch has returned an error
ErrorBranch == \E w \in Workers : ErrLock(w) \/ ErrRecord(w)

\* the steps of the VectorIndex.Add goroutines
Adders == \E j \in DOMAIN adders : AddOk(j) \/ AddFails(j) \/ AddLock(j) \/ AddRecord(j)

\* a chunk goroutine is inside db.Batch
InBatch(w) == w \in DOMAIN cpc /\ cpc[w] \in {"queued", "solo"}

\* the Go scheduler runs every goroutine that can run, every VectorIndex.Add
\* returns, and every db.Batch returns
SpecFair ==
    /\ Init
    /\ [][Next]_vars
    /\ WF_vars(Coordinator)
    /\ WF_vars(ErrorBranch)
    /\ WF_vars(Adders)
    /\ \A w \in 1..MaxChunks : []<>(~InBatch(w))

NextCtx == Next \/ Cancel

SpecCtx == Init /\ [][NextCtx]_vars

\* ============================================ single-object writes (4.3, 4.5)

\* the shard is exercised with this many UUIDs, ...
MaxUUID == 2
\* ... until the docID counter has passed this value, ...
MaxDocID == 4
\* ... with this many references added to one object, ...
MaxRefs == 2
\* ... while the wall clock advances this many times
MaxClock == 2

UUIDs == 0..(MaxUUID - 1)

\* (a delete that gives the docID back to the counter when it was the last)
deleteObjectInTxReusing(tx, u) ==
    IF u \notin DOMAIN tx.store
    THEN [err |-> "not found", tx |-> tx, docID |-> 0]
    ELSE [err |-> "nil",
          tx |-> [store |-> [v \in DOMAIN tx.store \ {u} |-> tx.store[v]],
                  counter |-> IF tx.store[u].docID = tx.counter - 1
                              THEN tx.counter - 1 ELSE tx.counter],
          docID |-> tx.store[u].docID]

\* delete: removes the record and its docID binding; fails on an absent UUID.
\* The counter is left alone: the docID is retired
deleteObjectInTx(tx, u) ==
    IF u \notin DOMAIN tx.store
    THEN [err |-> "not found", tx |-> tx, docID |-> 0]
    ELSE [err |-> "nil",
          tx |-> [tx EXCEPT !.store = [v \in DOMAIN tx.store \ {u} |-> tx.store[v]]],
          docID |-> tx.store[u].docID]

\* an empty shard that serves one write at a time; pc names the write that
\* returned last
InitShard ==
    /\ mode = "objects"
    /\ n = 0
    /\ twin = <<0, 0>>
    /\ invalid = {}
    /\ rejected = {}
    /\ addBad = {}
    /\ pc = "open"
    /\ i = 0
    /\ chunks = <<>>
    /\ cpc = <<>>
    /\ cerr = <<>>
    /\ affectedIndices = <<>>
    /\ m = Free
    /\ wg = 0
    /\ docIDs = <<>>
    /\ errs = <<>>
    /\ store = <<>>
    /\ counter = 1
    /\ commitFails = 0
    /\ committed = {}
    /\ adders = <<>>
    /\ vecIndex = {}
    /\ cancelled = FALSE
    /\ now = 0
    /\ rest = <<>>
    /\ boot = <<>>

\* put, or update if the UUID is present: the transaction commits, then
\* VectorIndex.add(docID, vec)
PutObject(u) ==
    LET r == putObjectInTx([store |-> store, counter |-> counter], u, 0) IN
    /\ r.err = "nil"
    /\ r.tx.counter <= MaxDocID + 1
    /\ store' = r.tx.store
    /\ counter' = r.tx.counter
    /\ vecIndex' = vecIndex \cup {r.docID}
    /\ pc' = "put"
    /\ UNCHANGED <<inputs, i, phase1, m, wg, docIDs, errs, adders, cancelled, now, front>>

\* delete: the transaction commits, then VectorIndex.delete(docID); NotFound
\* for an absent UUID
DeleteObject(u) ==
    LET r == deleteObjectInTx([store |-> store, counter |-> counter], u) IN
    /\ store' = r.tx.store
    /\ counter' = r.tx.counter
    /\ vecIndex' = IF r.err = "nil" THEN vecIndex \ {r.docID} ELSE vecIndex
    /\ pc' = IF r.err = "nil" THEN "deleted" ELSE "delete: not found"
    /\ UNCHANGED <<inputs, i, phase1, m, wg, docIDs, errs, adders, cancelled, now, front>>

\* the merge of one reference whose source is u, as a transaction of its own;
\* the vector index is not touched
MergeObject(u) ==
    LET r == mergeObjectInTx([store |-> store, counter |-> counter],
                             mergeDocFromBatchReference(u), 0) IN
    /\ u \in DOMAIN store => store[u].refs < MaxRefs
    /\ store' = r.tx.store
    /\ counter' = r.tx.counter
    /\ pc' = IF r.err = "nil" THEN "merged" ELSE "merge: not found"
    /\ UNCHANGED <<inputs, i, phase1, m, wg, docIDs, errs, adders, vecIndex,
                   cancelled, now, front>>

\* time passes
Tick ==
    /\ now < MaxClock
    /\ now' = now + 1
    /\ UNCHANGED <<inputs, pc, i, phase1, m, wg, docIDs, errs, shard, adders,
                   vecIndex, cancelled, front>>

NextShard ==
    \/ \E u \in UUIDs : PutObject(u)
    \/ \E u \in UUIDs : DeleteObject(u)
    \/ \E u \in UUIDs : MergeObject(u)
    \/ Tick

SpecShard == InitShard /\ [][NextShard]_vars

\* ================= the REST handlers of things and actions (handlers_kinds.go)

\* an include parameter is made of at most this many words and commas
MaxIncludeLen == 3

Comma == ","

ClassificationWords == {"_classification", "classification"}
InterpretationWords == {"_interpretation", "interpretation"}
NearestNeighborsWords ==
    {"_nearestNeighbors", "nearestNeighbors", "nearestneighbors",
     "_nearestneighbors", "nearest-neighbors", "nearest_neighbors",
     "_nearest_neighbors"}
FeatureProjectionWords ==
    {"_featureProjection", "featureProjection", "featureprojection",
     "_featureprojection", "feature-projection", "feature_projection",
     "_feature_projection"}
VectorWords == {"_vector", "vector"}

\* the words the switch of parseIncludeParam has a case for
CaseWords ==
    ClassificationWords \cup InterpretationWords \cup NearestNeighborsWords
        \cup FeatureProjectionWords \cup VectorWords

\* the words requests are made of: every case of the switch, the two
\* spellings of refMeta, and a word that names nothing
Words == CaseWords \cup {"_refMeta", "refMeta", "bogus"}

\* ... of which these, and the comma, make up the longer parameters
Letters == {"classification", "_vector", "_refMeta", "bogus", Comma}

\* a *string: nil, or a string written as the sequence of its words and commas
NilString == [nil |-> TRUE, str |-> <<>>]
String(str) == [nil |-> FALSE, str |-> str]

Includes ==
    {NilString} \cup {String(<<w>>) : w \in Words}
        \cup {String(str) : str \in UNION {[1..l -> Letters] : l \in 0..MaxIncludeLen}}

\* strings.Split(s, ","): the pieces between the commas, empty ones too
RECURSIVE SplitAcc(_, _, _)
SplitAcc(str, cur, acc) ==
    IF str = <<>> THEN Append(acc, cur)
    ELSE IF Head(str) = Comma
    THEN SplitAcc(Tail(str), <<>>, Append(acc, cur))
    ELSE SplitAcc(Tail(str), Append(cur, Head(str)), acc)

stringsSplit(str) == SplitAcc(str, <<>>, <<>>)

\* the fields of traverser.UnderscoreProperties
Flags ==
    {"Classification", "RefMeta", "Vector", "NearestNeighbors",
     "FeatureProjection", "Interpretation"}

\* one case of the switch: the flags it sets
CaseOf(prop) ==
    IF Len(prop) # 1 THEN [known |-> FALSE, sets |-> {}]
    ELSE IF prop[1] \in ClassificationWords
    THEN [known |-> TRUE, sets |-> {"Classification", "RefMeta"}]
    ELSE IF prop[1] \in InterpretationWords
    THEN [known |-> TRUE, sets |-> {"Interpretation"}]
    ELSE IF prop[1] \in NearestNeighborsWords
    THEN [known |-> TRUE, sets |-> {"NearestNeighbors"}]
    ELSE IF prop[1] \in FeatureProjectionWords
    THEN [known |-> TRUE, sets |-> {"FeatureProjection"}]
    ELSE IF prop[1] \in VectorWords
    THEN [known |-> TRUE, sets |-> {"Vector"}]
    ELSE [known |-> FALSE, sets |-> {}]

\* for _, prop := range parts { switch prop {...} }: the default case returns
\* what is set so far and an error
RECURSIVE ParseParts(_, _)
ParseParts(parts, out) ==
    IF parts = <<>> THEN [out |-> out, err |-> "nil"]
    ELSE IF ~CaseOf(Head(parts)).known
    THEN [out |-> out, err |-> "unrecognized property"]
    ELSE ParseParts(Tail(parts), out \cup CaseOf(Head(parts)).sets)

parseIncludeParam(in) ==
    IF in.nil THEN [out |-> {}, err |-> "nil"]
    ELSE ParseParts(stringsSplit(in.str), {})

\* a *bool: "nil", "true" or "false"
derefBool(in) == in = "true"

\* the kinds of error a manager call returns, "nil" for none
ManagerErrs == {"nil", "Forbidden", "NotFound", "InvalidUserInput", "other"}

Kinds == {"Thing", "Action"}

\* the handlers setupKindHandlers registers, for either kind
Ops ==
    {"create", "validate", "get", "list", "update", "patch", "delete",
     "referencesCreate", "referencesUpdate", "referencesDelete"}

\* what a handler has done: the status of its responder, whether it called
\* the manager, and the UnderscoreProperties it passed
Response(status, called, underscores) ==
    [status |-> status, called |-> called, underscores |-> underscores]

\* addThing, addAction, validateThing, validateAction, updateThing,
\* updateAction: Forbidden, ErrInvalidUserInput, default
addThing(err) ==
    IF err = "nil" THEN Response(200, TRUE, {})
    ELSE IF err = "Forbidden" THEN Response(403, TRUE, {})
    ELSE IF err = "InvalidUserInput" THEN Response(422, TRUE, {})
    ELSE Response(500, TRUE, {})

validateThing(err) == addThing(err)

updateThing(err) == addThing(err)

\* patchThing, patchAction: the same cases, 204 on success
patchThing(err) ==
    IF err = "nil" THEN Response(204, TRUE, {})
    ELSE IF err = "Forbidden" THEN Response(403, TRUE, {})
    ELSE IF err = "InvalidUserInput" THEN Response(422, TRUE, {})
    ELSE Response(500, TRUE, {})

\* (a handler that takes the flags of include alone and drops meta)
WithMetaIgnored(underscores, meta) == underscores

\* if derefBool(params.Meta) { Classification, RefMeta, Vector = true }
WithMeta(underscores, meta) ==
    IF derefBool(meta)
    THEN underscores \cup {"Classification", "RefMeta", "Vector"}
    ELSE underscores

\* getThing, getAction: parse include (400 on an error), apply meta, call the
\* manager: Forbidden, ErrNotFound, default
getThing(include, meta, err) ==
    LET parsed == parseIncludeParam(include)
        underscores == WithMeta(parsed.out, meta)
    IN  IF parsed.err # "nil" THEN Response(400, FALSE, {})
        ELSE IF err = "nil" THEN Response(200, TRUE, underscores)
        ELSE IF err = "Forbidden" THEN Response(403, TRUE, underscores)
        ELSE IF err = "NotFound" THEN Response(404, TRUE, underscores)
        ELSE Response(500, TRUE, underscores)

\* getThings, getActions: the same, with Forbidden and default only
getThings(include, meta, err) ==
    LET parsed == parseIncludeParam(include)
        underscores == WithMeta(parsed.out, meta)
    IN  IF parsed.err # "nil" THEN Response(400, FALSE, {})
        ELSE IF err = "nil" THEN Response(200, TRUE, underscores)
        ELSE IF err = "Forbidden" THEN Response(403, TRUE, underscores)
        ELSE Response(500, TRUE, underscores)

\* deleteThing, deleteAction: Forbidden, ErrNotFound, default
deleteThing(err) ==
    IF err = "nil" THEN Response(204, TRUE, {})
    ELSE IF err = "Forbidden" THEN Response(403, TRUE, {})
    ELSE IF err = "NotFound" THEN Response(404, TRUE, {})
    ELSE Response(500, TRUE, {})

\* addThingReference, addActionReference, updateThingReferences,
\* updateActionReferences: Forbidden; ErrNotFound and ErrInvalidUserInput
\* share the UnprocessableEntity case; default
addThingReference(err) ==
    IF err = "nil" THEN Response(200, TRUE, {})
    ELSE IF err = "Forbidden" THEN Response(403, TRUE, {})
    ELSE IF err \in {"NotFound", "InvalidUserInput"} THEN Response(422, TRUE, {})
    ELSE Response(500, TRUE, {})

updateThingReferences(err) == addThingReference(err)

\* deleteThingReference, deleteActionReference: Forbidden; ErrNotFound and
\* ErrInvalidUserInput share the NotFound case; default
deleteThingReference(err) ==
    IF err = "nil" THEN Response(204, TRUE, {})
    ELSE IF err = "Forbidden" THEN Response(403, TRUE, {})
    ELSE IF err \in {"NotFound", "InvalidUserInput"} THEN Response(404, TRUE, {})
    ELSE Response(500, TRUE, {})

\* the handler registered for the operation
Handle(req) ==
    CASE req.op = "create" -> addThing(req.err)
      [] req.op = "validate" -> validateThing(req.err)
      [] req.op = "get" -> getThing(req.include, req.meta, req.err)
      [] req.op = "list" -> getThings(req.include, req.meta, req.err)
      [] req.op = "update" -> updateThing(req.err)
      [] req.op = "patch" -> patchThing(req.err)
      [] req.op = "delete" -> deleteThing(req.err)
      [] req.op = "referencesCreate" -> addThingReference(req.err)
      [] req.op = "referencesUpdate" -> updateThingReferences(req.err)
      [] req.op = "referencesDelete" -> deleteThingReference(req.err)

\* the requests: an operation on a kind, its include and meta parameters
\* (get and list only), and the error the manager will return if called
Requests ==
    {[op |-> op, kind |-> kind, include |-> in, meta |-> meta, err |-> err] :
        op \in {"get", "list"}, kind \in Kinds, in \in Includes,
        meta \in {"nil", "true", "false"}, err \in ManagerErrs}
    \cup
    {[op |-> op, kind |-> kind, include |-> NilString, meta |-> "nil", err |-> err] :
        op \in Ops \ {"get", "list"}, kind \in Kinds, err \in ManagerErrs}

\* everything but the REST adapter and the startup is at rest
Quiet ==
    /\ mode = "objects"
    /\ n = 0
    /\ twin = <<0, 0>>
    /\ invalid = {}
    /\ rejected = {}
    /\ addBad = {}
    /\ pc = "open"
    /\ i = 0
    /\ chunks = <<>>
    /\ cpc = <<>>
    /\ cerr = <<>>
    /\ affectedIndices = <<>>
    /\ m = Free
    /\ wg = 0
    /\ docIDs = <<>>
    /\ errs = <<>>
    /\ store = <<>>
    /\ counter = 1
    /\ commitFails = 0
    /\ committed = {}
    /\ adders = <<>>
    /\ vecIndex = {}
    /\ cancelled = FALSE
    /\ now = 0

\* a request has arrived at its handler
InitRest ==
    /\ Quiet
    /\ boot = <<>>
    /\ \E req \in Requests : rest = [pc |-> "received", req |-> req]

\* the handler runs and returns its responder
Serve ==
    /\ rest.pc = "received"
    /\ rest' = [pc |-> "responded", req |-> rest.req, res |-> Handle(rest.req)]
    /\ UNCHANGED <<inputs, pc, i, phase1, m, wg, docIDs, errs, shard, adders,
                   vecIndex, cancelled, now, boot>>

NextRest == Serve

SpecRest == InitRest /\ [][NextRest]_vars

\* ============================== startup of the server (configureAPI, part_001)

\* what configureAPI creates or registers after the database has started
AfterStartup == {"kindsManager", "batchKindsManager", "traverser", "handlers"}

\* the environment of one startup: the configuration, what the comparison of
\* the contextionary's version gives once it answers, whether the schema
\* manager can be made, and how the vector repo's WaitForStartup ends
BootInputs ==
    [standalone : BOOLEAN,
     cmp : {"sufficient", "insufficient", "error"},
     schemaErr : BOOLEAN,
     wait : {"ready", "error", "timeout"}]

\* configureAPI is entered: startupRoutine has run, nothing is set up
InitBoot ==
    /\ Quiet
    /\ rest = <<>>
    /\ \E in \in BootInputs :
          boot = [pc |-> "sleep", in |-> in, slept |-> FALSE, calls |-> 0,
                  validated |-> FALSE, created |-> {}, schemaGetter |-> FALSE,
                  waitErr |-> "none"]

BootStep(b) ==
    /\ boot' = b
    /\ UNCHANGED <<inputs, pc, i, phase1, m, wg, docIDs, errs, shard, adders,
                   vecIndex, cancelled, now, rest>>

\* validateContextionaryVersion: time.Sleep(1 * time.Second)
Sleep ==
    /\ boot.pc = "sleep"
    /\ BootStep([boot EXCEPT !.pc = "version", !.slept = TRUE])

\* (a loop that tries again at once)
AfterFailureNoSleep == "version"

\* continue: back to the top of the loop
AfterFailure == "sleep"

\* appState.Contextionary.Version(ctx) returns an error: warn and continue
VersionFails ==
    /\ boot.pc = "version"
    /\ BootStep([boot EXCEPT !.pc = AfterFailure, !.slept = FALSE, !.calls = 1])

\* appState.Contextionary.Version(ctx) returns a version
VersionAnswers ==
    /\ boot.pc = "version"
    /\ BootStep([boot EXCEPT !.pc = "compare", !.slept = FALSE, !.calls = 1])

\* extractVersionAndCompare: an error or ok ends the loop, an insufficient
\* version is fatal
Compare ==
    /\ boot.pc = "compare"
    /\ BootStep(IF boot.in.cmp = "insufficient"
                THEN [boot EXCEPT !.pc = "exited"]
                ELSE [boot EXCEPT !.pc = "configure", !.validated = TRUE])

\* api.ServeError ... explorer: the repo, the migrator, the vectorizer and the
\* explorer of the standalone or the elasticsearch setup
Configure ==
    /\ boot.pc = "configure"
    /\ BootStep([boot EXCEPT !.pc = "schemaManager",
                             !.created = @ \cup {"api", "vectorRepo", "vectorizer",
                                                 "explorer"}])

\* schemaUC.NewManager: fatal on an error
NewSchemaManager ==
    /\ boot.pc = "schemaManager"
    /\ BootStep(IF boot.in.schemaErr
                THEN [boot EXCEPT !.pc = "exited"]
                ELSE [boot EXCEPT !.pc = "setSchemaGetter",
                                  !.created = @ \cup {"schemaManager"}])

\* vectorRepo.SetSchemaGetter(schemaManager); vectorizer.SetIndexChecker
SetSchemaGetter ==
    /\ boot.pc = "setSchemaGetter"
    /\ BootStep([boot EXCEPT !.pc = "wait", !.schemaGetter = TRUE])

\* err = vectorRepo.WaitForStartup(2 * time.Minute): nil when the repo is
\* ready in time, an error otherwise
WaitForStartup ==
    /\ boot.pc = "wait"
    /\ BootStep([boot EXCEPT !.pc = "waited",
                             !.waitErr = IF boot.in.wait = "ready" THEN "nil"
                                         ELSE boot.in.wait])

\* (a startup that logs the error and goes on)
AfterWaitIgnoring(err) == "managers"

\* if err != nil { Fatal("db didn't start up"); os.Exit(1) }
AfterWait(err) == IF err # "nil" THEN "exited" ELSE "managers"

CheckWait ==
    /\ boot.pc = "waited"
    /\ BootStep([boot EXCEPT !.pc = AfterWait(boot.waitErr)])

\* kinds.NewManager, kinds.NewBatchManager, traverser.NewTraverser,
\* classification.New, the schema callbacks
NewManagers ==
    /\ boot.pc = "managers"
    /\ BootStep([boot EXCEPT !.pc = "handlers",
                             !.created = @ \cup {"kindsManager", "batchKindsManager",
                                                 "traverser", "classifier"}])

\* setupSchemaHandlers ... setupClassificationHandlers; return the handler
SetupHandlers ==
    /\ boot.pc = "handlers"
    /\ BootStep([boot EXCEPT !.pc = "serving", !.created = @ \cup {"handlers"}])

NextBoot ==
    \/ Sleep
    \/ VersionFails
    \/ VersionAnswers
    \/ Compare
    \/ Configure
    \/ NewSchemaManager
    \/ SetSchemaGetter
    \/ WaitForStartup
    \/ CheckWait
    \/ NewManagers
    \/ SetupHandlers

SpecBoot == InitBoot /\ [][NextBoot]_vars

\* every step that can be taken is taken in the end, and the contextionary,
\* asked again and again, answers in the end
SpecBootFair ==
    InitBoot /\ [][NextBoot]_vars /\ WF_vars(NextBoot) /\ SF_vars(VersionAnswers)

\* ================================================================= claims

ChunkOf(k) == CHOOSE w \in Workers : k \in ChunkSet(chunks[w])

\* the item at index k fails inside its transaction
ItemFails(k) ==
    \/ k \in invalid
    \/ mode = "objects" /\ k \in rejected
    \/ mode = "refs" /\ ID(k) \notin DOMAIN store

\* the objects of chunk goroutine w are in the bucket, last written by w or,
\* for a UUID that occurs again, by a later writer
Stored(w) == \A k \in ChunkSet(chunks[w]) : ID(k) \in DOMAIN store

\* VectorIndex.Add has been called for index k
AddCalled(k) == k \in DOMAIN adders /\ adders[k].pc # "ready"

VecErr == <<"insert to vector index", "add">>

\* ---- C1
\* C1: the goroutine started for chunk c (counted from 0) gets exactly the
\* indices 30*c .. min(30*c+30, N)-1, which are never empty, and once the loop
\* has ended every index 0..N-1 lies in exactly one chunk.
C1_ContiguousChunks ==
    /\ \A w \in Workers :
          /\ chunks[w].i = maxPerTransaction * (w - 1)
          /\ chunks[w].len >= 1
          /\ chunks[w].i + chunks[w].len
                = Min(maxPerTransaction * (w - 1) + maxPerTransaction, n)
    /\ pc # "split" =>
          /\ \A k \in 0..(n - 1) :
                Cardinality({w \in Workers : k \in ChunkSet(chunks[w])}) = 1
          /\ \A w \in Workers : ChunkSet(chunks[w]) \subseteq 0..(n - 1)

C1_Witness ==
    /\ pc = "wait1"
    /\ n = 2 * maxPerTransaction + 1
    /\ Len(chunks) = 3
    /\ chunks[3] = [i |-> 60, len |-> 1]

C3_ChunkAtomic ==
    pc = "returned" =>
        \A w \in Workers :
            /\ (\E k \in ChunkSet(chunks[w]) : ItemFails(k)) =>
                  \A u \in DOMAIN store : store[u].by # w
            /\ (\E u \in DOMAIN store : store[u].by = w) => Stored(w)

C3_Witness ==
    /\ pc = "returned"
    /\ \E w \in Workers :
          /\ \E k \in ChunkSet(chunks[w]) : ItemFails(k) /\ k >= chunks[w].i + 10
          /\ \A k \in ChunkSet(chunks[w]) : ID(k) \notin DOMAIN store
    /\ \E w \in Workers : w \in committed /\ Stored(w)

\* ---- C4
\* C4: when exactly one item, at index k, fails in its transaction and
\* nothing else fails (no commit, no VectorIndex.Add), the returned map has an
\* error for exactly the indices of the chunk of k, and the objects of the
\* other chunks are in the bucket.
C4_OtherChunksUntouched ==
    (/\ pc = "returned"
     /\ Cardinality({k \in 0..(n - 1) : ItemFails(k)}) = 1
     /\ commitFails = 0
     /\ addBad = {}) =>
        LET k == CHOOSE x \in 0..(n - 1) : ItemFails(x)
        IN  /\ DOMAIN errs = ChunkSet(chunks[ChunkOf(k)])
            /\ \A w \in Workers \ {ChunkOf(k)} : w \in committed /\ Stored(w)

C4_Witness ==
    /\ pc = "returned"
    /\ mode = "objects"
    /\ n = 60
    /\ invalid = {40}
    /\ rejected = {}
    /\ DOMAIN errs = 30..59
    /\ \A k \in 0..29 : ID(k) \in DOMAIN store

\* ---- C5
\* C5: when putObjectBatch returns, every index of a chunk whose transaction
\* committed has had VectorIndex.Add called for it or has an error in the
\* returned map.
C5_VectorIndexConvergence ==
    (pc = "returned" /\ mode = "objects") =>
        \A w \in committed :
            \A k \in ChunkSet(chunks[w]) : AddCalled(k) \/ k \in DOMAIN errs

C5_Witness ==
    /\ pc = "returned"
    /\ mode = "objects"
    /\ n = 60
    /\ committed = {1}
    /\ \A k \in 0..29 : AddCalled(k)
    /\ 29 \in DOMAIN errs

\* ---- C6
\* C6: the vector index phase starts only after every chunk goroutine has
\* ended; VectorIndex.Add is never dispatched for an index whose chunk
\* transaction failed; and when the batch returns Add has been called for
\* every index that had no error recorded by its chunk.
C6_AddOnlyForCommitted ==
    /\ pc \in {"index", "spawn", "wait2", "returned"} =>
          \A w \in Workers : cpc[w] = "done"
    /\ \A k \in DOMAIN adders : ChunkOf(k) \in committed
    /\ pc = "returned" /\ mode = "objects" =>
          \A w \in committed : \A k \in ChunkSet(chunks[w]) : AddCalled(k)

\* ---- C7
\* C7: when putObjectBatch returns, an index of a committed chunk has an
\* error exactly if its VectorIndex.Add failed, the error is the vector
\* index's, and the object is in the bucket all the same.
C7_AddFailureIsLocal ==
    (pc = "returned" /\ mode = "objects") =>
        \A w \in committed :
            \A k \in ChunkSet(chunks[w]) :
                /\ ID(k) \in DOMAIN store
                /\ k \in addBad => (k \in DOMAIN errs /\ errs[k] = VecErr)
                /\ k \notin addBad => k \notin DOMAIN errs

C7_Witness ==
    /\ pc = "returned"
    /\ mode = "objects"
    /\ n = 60
    /\ addBad = {29}
    /\ committed = {1, 2}
    /\ DOMAIN errs = {29}
    /\ errs[29] = VecErr
    /\ ID(29) \in DOMAIN store

\* ---- C8
\* C8: no goroutine reads errs while another goroutine of the batch is inside
\* its critical section writing errs: the loop of the vector index phase does
\* not look up errs[i] while an Add goroutine holds the mutex to record its
\* error.
C8_MutexGuardsMaps ==
    [][(pc = "index" /\ i < n /\ <<pc, i>>' # <<pc, i>>) => ~Writing]_vars

\* ---- C9
\* C9: every docID in the shared docIDs map was assigned by a transaction
\* that committed: it is the docID the bucket holds for that UUID.
C9_PublishedAfterCommit ==
    \A u \in DOMAIN docIDs :
        u \in DOMAIN store /\ store[u].docID = docIDs[u]

\* ---- C10
\* C10: once ctx is cancelled, no chunk transaction commits and no
\* VectorIndex.Add is issued.
C10_CancelStopsWrites ==
    [][cancelled =>
          /\ committed' = committed
          /\ {j \in DOMAIN adders' : adders'[j].pc # "ready"}
                = {j \in DOMAIN adders : adders[j].pc # "ready"}]_vars

\* ---- C11
\* the indices of the chunk that goroutine w handles, started or not
IndicesOf(w) ==
    {k \in 0..(n - 1) : k \div maxPerTransaction = w - 1}

\* C11: once ctx is cancelled, a chunk whose transaction has not committed
\* does not commit, and when the batch returns every index of it has an error
\* and the bucket holds nothing written by it; a chunk that has committed
\* keeps its objects in the bucket and gets no error entry any more.
C11_CancelledResultAuthoritative ==
    [][cancelled =>
          \A w \in 1..MaxChunks :
              /\ (IndicesOf(w) # {} /\ w \notin committed) =>
                    /\ w \notin committed'
                    /\ pc' = "returned" =>
                          /\ IndicesOf(w) \subseteq DOMAIN errs'
                          /\ \A u \in DOMAIN store' : store'[u].by # w
              /\ w \in committed =>
                    /\ \A k \in IndicesOf(w) :
                          /\ ID(k) \in DOMAIN store'
                          /\ k \notin DOMAIN errs => k \notin DOMAIN errs']_vars

\* ---- C12
\* the goroutine that handles index k
WorkerOf(k) == (k \div maxPerTransaction) + 1

\* where the item at index k stands
ItemState(k) ==
    IF k \in DOMAIN errs THEN "failed"
    ELSE IF k \in DOMAIN adders /\ adders[k].pc = "done" THEN "indexed"
    ELSE IF WorkerOf(k) \in committed THEN "committed"
    ELSE IF WorkerOf(k) \in Workers THEN "inTxn"
    ELSE "queued"

ItemSteps ==
    {<<"queued", "inTxn">>, <<"inTxn", "committed">>, <<"committed", "indexed">>,
     <<"inTxn", "failed">>, <<"committed", "failed">>}

\* C12: every step takes an item along queued -> inTxn -> committed ->
\* indexed, or to failed from inTxn or from its VectorIndex.Add; an item with
\* an error recorded keeps it, its chunk does not commit afterwards and no
\* VectorIndex.Add is called for it afterwards.
C12_ItemStateMachine ==
    [][\A k \in 0..(n - 1) :
          /\ \/ ItemState(k)' = ItemState(k)
             \/ <<ItemState(k), ItemState(k)'>> \in ItemSteps
          /\ k \in DOMAIN errs =>
                /\ k \in DOMAIN errs'
                /\ WorkerOf(k) \in committed' => WorkerOf(k) \in committed
                /\ AddCalled(k)' => AddCalled(k)]_vars

\* ---- C13
\* the item at index k succeeded: its chunk committed and, for an object, its
\* VectorIndex.Add returned nil
Succeeded(k) ==
    /\ WorkerOf(k) \in committed
    /\ mode = "objects" =>
          k \in DOMAIN adders /\ adders[k].pc = "done" /\ k \notin addBad

C14_RefsSkipVectorIndex ==
    mode = "refs" => (adders = <<>> /\ vecIndex = {})

C14_Witness ==
    /\ mode = "refs"
    /\ pc = "returned"
    /\ n = 60
    /\ \E w \in Workers : w \in committed /\ store[ID(chunks[w].i)].refs > 0
    /\ \E w \in Workers : w \notin committed /\ chunks[w].i \in DOMAIN errs
    /\ adders = <<>>

\* ---- C15
\* C15: a batch of no items starts no goroutine, opens no transaction, calls
\* the vector index for nothing, and returns an empty map.
C15_EmptyBatchNoIO ==
    n = 0 =>
        /\ chunks = <<>>
        /\ committed = {}
        /\ commitFails = 0
        /\ store = <<>>
        /\ counter = 1
        /\ adders = <<>>
        /\ vecIndex = {}
        /\ docIDs = <<>>
        /\ errs = <<>>
        /\ pc \in {"split", "wait1", "index", "wait2", "returned"}

C15_Witness ==
    /\ n = 0
    /\ pc = "returned"
    /\ errs = <<>>
    /\ chunks = <<>>

\* ---- C16
\* the docIDs of the live objects, and the UUID each of them leads back to
LiveDocIDs == {store[u].docID : u \in DOMAIN store}
UUIDOf(d) == CHOOSE u \in DOMAIN store : store[u].docID = d

C17_DeleteRetiresDocID ==
    [][/\ counter' >= counter
       /\ \A u \in DOMAIN store : store[u].docID < counter
       /\ \A u \in DOMAIN store' :
             (u \notin DOMAIN store \/ store'[u].docID # store[u].docID) =>
                (counter <= store'[u].docID /\ store'[u].docID < counter')]_vars

\* put U1 (docID 1), delete, put U2: docID(U2) = 2
C17_Witness ==
    /\ pc = "put"
    /\ DOMAIN store = {1}
    /\ store[1].docID = 2
    /\ store[1].refs = 0
    /\ store[1].createdAt = store[1].updatedAt
    /\ counter = 3
    /\ vecIndex = {2}

\* ---- C18
\* C18: a merge that succeeds (it adds its reference to the object) leaves
\* the object's docID and createdAt as they were and makes its updatedAt
\* strictly greater; a merge on an absent UUID fails with NotFound and leaves
\* bucket, counter and vector index as they were.
C18_MergePreservesIdentity ==
    [][/\ \A u \in DOMAIN store \cap DOMAIN store' :
             store'[u].refs > store[u].refs =>
                /\ store'[u].docID = store[u].docID
                /\ store'[u].createdAt = store[u].createdAt
                /\ store'[u].updatedAt > store[u].updatedAt
       /\ (pc' = "merge: not found" /\ now' = now) =>
             (store' = store /\ counter' = counter /\ vecIndex' = vecIndex)]_vars

\* ---- C19
\* C19: VectorIndex.Add is issued only for an index whose chunk transaction
\* has committed, with the docID the bucket holds for that object, so every
\* docID in the vector index is the docID of a committed object.
C19_CommitBeforeVectorIndex ==
    /\ \A k \in DOMAIN adders :
          /\ WorkerOf(k) \in committed
          /\ ID(k) \in DOMAIN store
          /\ adders[k].docID = store[ID(k)].docID
    /\ vecIndex \subseteq LiveDocIDs

\* ---- C20
\* C20: in an object batch a put of a UUID that the bucket already holds is
\* an update: the object keeps the docID its first put gave it, and the
\* counter has handed out exactly one docID per live UUID, also when the UUID
\* occurs twice in the batch.
C20_IdempotentCreate ==
    [][mode = "objects" =>
          /\ \A u \in DOMAIN store :
                u \in DOMAIN store' /\ store'[u].docID = store[u].docID
          /\ counter' = 1 + Cardinality(DOMAIN store')]_vars

C20_Witness ==
    /\ pc = "returned"
    /\ mode = "objects"
    /\ n = 60
    /\ twin = <<0, 30>>
    /\ committed = {1, 2}
    /\ Cardinality(DOMAIN store) = 59
    /\ counter = 60
    /\ store[0].docID = 1
    /\ store[0].by = 2
    /\ docIDs[0] = 1

\* ---- C21
\* C21: whatever the handler, when the manager returns an error the response
\* is 404 for NotFound, 422 for InvalidUserInput, 403 for Forbidden and 500 for
\* any other error.
C21_UniformErrorMapping ==
    (rest.pc = "responded" /\ rest.res.called) =>
        /\ rest.req.err = "NotFound" => rest.res.status = 404
        /\ rest.req.err = "InvalidUserInput" => rest.res.status = 422
        /\ rest.req.err = "Forbidden" => rest.res.status = 403
        /\ rest.req.err = "other" => rest.res.status = 500

\* ---- C22
\* C22: a get or list request whose include parameter holds an element that
\* parseIncludeParam does not recognise is answered with 422 and the manager
\* is not called.
C22_UnknownIncludeIs422 ==
    (/\ rest.pc = "responded"
     /\ rest.req.op \in {"get", "list"}
     /\ parseIncludeParam(rest.req.include).err # "nil") =>
        (rest.res.status = 422 /\ ~rest.res.called)

\* ---- C23
\* the enrichment value a word names, in any of its spellings; "" for none
Enrichment(w) ==
    IF w \in ClassificationWords THEN "Classification"
    ELSE IF w \in {"_refMeta", "refMeta"} THEN "RefMeta"
    ELSE IF w \in VectorWords THEN "Vector"
    ELSE IF w \in NearestNeighborsWords THEN "NearestNeighbors"
    ELSE IF w \in FeatureProjectionWords THEN "FeatureProjection"
    ELSE IF w \in InterpretationWords THEN "Interpretation"
    ELSE ""

\* the comma-separated element names one of the six values
Names(prop) == Len(prop) = 1 /\ Enrichment(prop[1]) # ""

\* C23: a get or list handler without meta passes on what parseIncludeParam
\* returns: for a nil include no flag; for a list in which every element
\* names one of the six values exactly the flags of the values listed; any
\* other list is rejected with an error before the manager is called.
C23_ParseIncludeExact ==
    (/\ rest.pc = "responded"
     /\ rest.req.op \in {"get", "list"}
     /\ ~derefBool(rest.req.meta)) =>
        LET in == rest.req.include
            parts == stringsSplit(in.str)
        IN  IF in.nil THEN rest.res.called /\ rest.res.underscores = {}
            ELSE IF \A j \in 1..Len(parts) : Names(parts[j])
            THEN /\ rest.res.called
                 /\ rest.res.underscores
                       = {Enrichment(parts[j][1]) : j \in 1..Len(parts)}
            ELSE ~rest.res.called

\* ---- C29
\* C29: when a get or list handler calls the manager, the flags it passes are
\* those the include list names, RefMeta if classification is listed, and
\* Classification, RefMeta and Vector if meta is true; no other flag is set
\* and none that include has set is cleared.
C29_EnrichmentSuperset ==
    (/\ rest.pc = "responded"
     /\ rest.req.op \in {"get", "list"}
     /\ rest.res.called) =>
        LET parts == IF rest.req.include.nil THEN <<>>
                     ELSE stringsSplit(rest.req.include.str)
            listed == {Enrichment(parts[j][1]) : j \in 1..Len(parts)}
        IN  /\ listed \subseteq rest.res.underscores
            /\ "Classification" \in listed => "RefMeta" \in rest.res.underscores
            /\ derefBool(rest.req.meta) =>
                  {"Classification", "RefMeta", "Vector"} \subseteq rest.res.underscores
            /\ rest.res.underscores \subseteq
                  listed
                    \cup (IF "Classification" \in listed THEN {"RefMeta"} ELSE {})
                    \cup (IF derefBool(rest.req.meta)
                          THEN {"Classification", "RefMeta", "Vector"} ELSE {})

C29_Witness ==
    /\ rest.pc = "responded"
    /\ rest.req.op = "list"
    /\ rest.req.meta = "true"
    /\ rest.req.include = String(<<"nearestNeighbors">>)
    /\ rest.res.called
    /\ rest.res.underscores
          = {"NearestNeighbors", "Classification", "RefMeta", "Vector"}

\* C24: the server starts only after the database has: the schema getter is
\* set before WaitForStartup is called, a WaitForStartup that ends with an
\* error or in its timeout ends the process, and no kinds manager, batch
\* manager, traverser or handler exists unless WaitForStartup returned nil.
C24_StartupBarrier ==
    /\ boot.waitErr # "none" => boot.schemaGetter
    /\ boot.pc = "wait" => boot.schemaGetter
    /\ boot.waitErr \in {"error", "timeout"} => boot.pc \in {"waited", "exited"}
    /\ boot.created \cap AfterStartup # {} => boot.waitErr = "nil"
    /\ boot.pc \in {"setSchemaGetter", "wait", "waited"} => boot.created \cap AfterStartup = {}

C24_Witness ==
    /\ boot # <<>>
    /\ boot.pc = "serving"
    /\ boot.waitErr = "nil"
    /\ AfterStartup \subseteq boot.created

\* C28: validateContextionaryVersion sleeps a second before every version
\* call, leaves the loop at the first call that answers, goes on when the
\* version is sufficient or cannot be compared and ends the process when it is
\* insufficient; nothing of the API is set up before the loop is left; and a
\* contextionary that answers in the end lets the loop end.
C28_VersionLoop ==
    /\ [](boot.pc = "version" => boot.slept)
    /\ [](boot.created # {} => boot.validated)
    /\ [](boot.validated => boot.in.cmp \in {"sufficient", "error"})
    /\ [][boot.pc = "version" /\ boot'.pc # "sleep" => boot'.pc = "compare"]_vars
    /\ [][boot.pc = "compare" =>
            boot'.pc = IF boot.in.cmp = "insufficient" THEN "exited" ELSE "configure"]_vars
    /\ <>(boot.pc \notin {"sleep", "version", "compare"})

C28_Witness ==
    /\ boot # <<>>
    /\ boot.validated
    /\ boot.in.cmp = "error"
    /\ boot.pc = "serving"

GoroutinesRunning ==
    \/ wg # 0
    \/ \E w \in DOMAIN cpc : cpc[w] # "done"
    \/ \E j \in DOMAIN adders : adders[j].pc # "done"

C27_ReturnsAfterAll ==
    /\ <>(pc = "returned")
    /\ [](pc = "returned" => ~GoroutinesRunning)
    /\ [][pc = "returned" =>
            /\ errs' = errs
            /\ store' = store
            /\ vecIndex' = vecIndex]_vars

====
